---- MODULE Spec2Model ----
(***************************************************************************)
(* A model of livedemo (src/livedemo/__main__.py): run_demo drives a child *)
(* interpreter inside a pseudo-terminal, injecting a script of commands    *)
(* with TIOCSTI while a relay thread copies the pty master to stdout.      *)
(*                                                                         *)
(* Three processes interleave: the orchestrator (run_demo and everything   *)
(* it calls), the relay thread (splice_master) and the child interpreter.  *)
(***************************************************************************)
EXTENDS Integers, Sequences, FiniteSets

\* ------------------------------------------------------------------ bounds
\* Longest script (number of commands) drawn as input.
MaxCmds == 2
\* Most operator keystrokes served to the hand-off loop (interact).
MaxKeys == 2

\* ------------------------------------------------------- bytes and encodings
\* b" ", the byte run_demo injects to release the reading thread.
SPACE == 32

\* The commands a script is drawn from: the empty command, the line that makes
\* the interpreter exit (a one-letter stand-in for "exit\n") and a last line
\* that has no trailing newline.
ExitLine == <<120, 10>>
CommandSet == {<<>>, ExitLine, <<120>>}

RECURSIVE SeqsUpTo(_, _)
SeqsUpTo(S, n) ==
  IF n = 0 THEN {<<>>}
  ELSE LET shorter == SeqsUpTo(S, n - 1)
       IN  shorter \cup {Append(s, x) : s \in {t \in shorter : Len(t) = n - 1}, x \in S}

Scripts == SeqsUpTo(CommandSet, MaxCmds)

\* What one key press of the operator puts on stdin: the UTF-8 bytes of one
\* character (newline, and the two-byte "e acute").
Keystrokes == {<<10>>, <<195, 169>>}

\* sys.stdin.read(1): stdin is a text stream, one read decodes one character.
Utf8Decode(bs) ==
  IF Len(bs) = 1 THEN bs[1] ELSE (bs[1] - 192) * 64 + (bs[2] - 128)

\* fcntl.ioctl given a str passes its UTF-8 encoding as the argument buffer.
Utf8Encode(c) ==
  IF c < 128 THEN <<c>> ELSE <<192 + (c \div 64), 128 + (c % 64)>>

\* ch.to_bytes(1, sys.byteorder) for an element ch of a bytes object.
ToBytesHigh(n) == <<n \div 256>>
ToBytes(n) == <<n % 256>>

\* TIOCSTI takes a pointer to one char: the first byte of the buffer is queued
\* (the buffer is NUL-terminated, so an empty one queues a NUL).
TiocstiByte(buf) == IF buf = <<>> THEN 0 ELSE buf[1]

RECURSIVE Flatten(_)
Flatten(ss) == IF ss = <<>> THEN <<>> ELSE Head(ss) \o Flatten(Tail(ss))

IsPrefix(s, t) == Len(s) <= Len(t) /\ SubSeq(t, 1, Len(s)) = s

\* ------------------------------------------------------ terminal attributes
\* The mode bits of the operator terminal that the program touches.
Attrs == [echo : BOOLEAN, icanon : BOOLEAN]

\* toggle_echo: attrs[3] ^= termios.ECHO
ToggleEchoClear(a) == [a EXCEPT !.echo = FALSE]
ToggleEcho(a) == [a EXCEPT !.echo = ~@]

\* tty.setraw clears ECHO and ICANON (among other flags).
SetRaw(a) == [a EXCEPT !.echo = FALSE, !.icanon = FALSE]

\* read_char's finally clause, termios.tcsetattr(fd, TCSADRAIN, attrs): the
\* terminal, now at `current`, gets the attributes captured on entry.
FinallyNoRestore(captured, current) == current
FinallyRestore(captured, current) == captured

VARIABLES
  commands,        \* run_demo argument: the script
  is_interactive,  \* run_demo argument: Interactive (TRUE) or Timed pacing
  keep,            \* run_demo argument: hand off to the operator afterwards
  ptyEcho,         \* ECHO flag of the pty slave's line discipline
  attrs0,          \* operator terminal attributes when run_demo was called
  term,            \* operator terminal attributes now
  pc,              \* orchestrator's position in run_demo
  retpc,           \* where the running read_char returns to
  saved,           \* read_char's local attrs
  ch,              \* interact's local ch: the character last read
  delay_fn,        \* input_string_generic's delay_fn: "sleep", "str" or "none"
  i,               \* commands already played (index of the for loop)
  j,               \* bytes of the current command already injected
  err,             \* the exception unwinding run_demo, or "none"
  toggles,         \* number of toggle_echo calls made
  playKeys,        \* operator keys consumed during script playback
  cmdKeys,         \* operator keys consumed by the current command
  cmdInj,          \* bytes injected by the current command
  handoffKeys,     \* keystrokes (byte sequences) read by interact
  injected,        \* every TIOCSTI so far: [b |-> byte, ph |-> phase]
  slaveQ,          \* input queue of the pty slave, unread by the child
  childAlive,      \* the child process runs
  lineSt,          \* child: what it has read of the current line
  returncode,      \* Popen.returncode: "None" until a wait reaped the child, then "set"
  masterBuf,       \* bytes written to the pty, unread on the master
  stdout,          \* bytes the relay has written to sys.stdout
  rpc,             \* relay thread's position in splice_master
  readFailed,      \* a master.read of the relay raised
  end_event,       \* threading.Event end_event
  masterOpen,      \* the master file object is open
  slaveOpen        \* the orchestrator holds slave_fd open

vars == <<commands, is_interactive, keep, ptyEcho, attrs0, term, pc, retpc,
          saved, ch, delay_fn, i, j, err, toggles, playKeys, cmdKeys, cmdInj,
          handoffKeys, injected, slaveQ, childAlive, lineSt,
          returncode, masterBuf, stdout, rpc, readFailed, end_event,
          masterOpen, slaveOpen>>

inputVars == <<commands, is_interactive, keep, ptyEcho, attrs0>>
orchLocals == <<retpc, saved, ch, delay_fn, i, j>>
keyVars == <<playKeys, cmdKeys, handoffKeys>>
ptyVars == <<injected, cmdInj, slaveQ, masterBuf>>
childVars == <<childAlive, lineSt>>
relayVars == <<stdout, rpc, readFailed>>
fdVars == <<masterOpen, slaveOpen>>

Init ==
  /\ commands \in Scripts
  /\ is_interactive \in BOOLEAN
  /\ keep \in BOOLEAN
  /\ ptyEcho \in BOOLEAN
  /\ attrs0 \in Attrs
  /\ term = attrs0
  /\ pc = "openpty"
  /\ retpc = "none"
  /\ saved = attrs0
  /\ ch = 0
  /\ delay_fn = "none"
  /\ i = 0
  /\ j = 0
  /\ err = "none"
  /\ toggles = 0
  /\ playKeys = 0
  /\ cmdKeys = 0
  /\ cmdInj = 0
  /\ handoffKeys = <<>>
  /\ injected = <<>>
  /\ slaveQ = <<>>
  /\ childAlive = FALSE
  /\ lineSt = "empty"
  /\ returncode = "None"
  /\ masterBuf = <<>>
  /\ stdout = <<>>
  /\ rpc = "unstarted"
  /\ readFailed = FALSE
  /\ end_event = FALSE
  /\ masterOpen = FALSE
  /\ slaveOpen = FALSE

\* ------------------------------------------------------------ orchestrator
cmd == commands[i + 1]

\* input_char: one TIOCSTI on slave_fd. The byte enters the slave's input queue
\* whether or not a process still reads it, and the line discipline echoes it
\* to the master when the slave's ECHO flag is set.
InputChar(buf, ph) ==
  /\ injected' = Append(injected, [b |-> TiocstiByte(buf), ph |-> ph])
  /\ slaveQ' = Append(slaveQ, TiocstiByte(buf))
  /\ masterBuf' = IF ptyEcho THEN Append(masterBuf, TiocstiByte(buf)) ELSE masterBuf

\* An exception raised inside the with block: nothing catches it, the only
\* thing run on the way out is the with statement's close of master.
Raise(e) ==
  /\ err' = e
  /\ pc' = "close"

\* pty.openpty()
OpenPty ==
  /\ pc = "openpty"
  /\ \/ /\ pc' = "popen"
        /\ masterOpen' = TRUE
        /\ slaveOpen' = TRUE
        /\ err' = err
     \/ /\ pc' = "raised"
        /\ err' = "OSError"
        /\ UNCHANGED fdVars
  /\ UNCHANGED <<inputVars, term, orchLocals, toggles, keyVars, ptyVars,
                 childVars, returncode, relayVars, end_event>>

\* subprocess.Popen([interpreter], stdin=slave_fd, ...)
PopenAfterToggle ==
  /\ pc = "popen"
  /\ term' = ToggleEcho(term)
  /\ toggles' = toggles + 1
  /\ \/ /\ pc' = "with"
        /\ childAlive' = TRUE
        /\ err' = err
     \/ /\ pc' = "raised"
        /\ err' = "OSError"
        /\ childAlive' = childAlive
  /\ UNCHANGED <<inputVars, orchLocals, keyVars, ptyVars, lineSt, returncode,
                 relayVars, end_event, fdVars>>

Popen ==
  /\ pc = "popen"
  /\ \/ /\ pc' = "with"
        /\ childAlive' = TRUE
        /\ err' = err
     \/ /\ pc' = "raised"
        /\ err' = "OSError"
        /\ childAlive' = childAlive
  /\ UNCHANGED <<inputVars, term, orchLocals, toggles, keyVars, ptyVars,
                 lineSt, returncode, relayVars, end_event, fdVars>>

\* with os.fdopen(master_fd, "rb") as master: ... t.start()
StartRelay ==
  /\ pc = "with"
  /\ pc' = "toggle_off"
  /\ rpc' = "loop"
  /\ UNCHANGED <<inputVars, term, orchLocals, err, toggles, keyVars, ptyVars,
                 childVars, returncode, stdout, readFailed, end_event, fdVars>>

\* toggle_echo(sys.stdin.fileno()), before the script and after the wait
ToggleEchoCall ==
  /\ pc \in {"toggle_off", "toggle_on"}
  /\ term' = ToggleEcho(term)
  /\ toggles' = toggles + 1
  /\ pc' = IF pc = "toggle_off" THEN "for" ELSE "close"
  /\ UNCHANGED <<inputVars, orchLocals, err, keyVars, ptyVars, childVars,
                 returncode, relayVars, end_event, fdVars>>

\* for command in commands: the call of input_string_interactive or
\* input_string_noninteractive, up to the first read_char() each one makes
\* (line 34's argument for the former, line 25 for the latter).
ForCommand ==
  /\ pc = "for"
  /\ \/ /\ i < Len(commands)
        /\ is_interactive
        /\ pc' = "rc_enter"
        /\ retpc' = "l34"
        /\ delay_fn' = "none"
        /\ j' = 0
        /\ cmdKeys' = 0
        /\ cmdInj' = 0
     \/ /\ i < Len(commands)
        /\ ~is_interactive
        /\ pc' = "rc_enter"
        /\ retpc' = "gen_for"
        /\ delay_fn' = "sleep"
        /\ j' = 0
        /\ cmdKeys' = 0
        /\ cmdInj' = 0
     \/ /\ i = Len(commands)
        /\ pc' = IF keep THEN "interact_alive" ELSE "set_event"
        /\ UNCHANGED <<retpc, delay_fn, j, cmdKeys, cmdInj>>
  /\ UNCHANGED <<inputVars, term, saved, ch, i, err, toggles, playKeys,
                 handoffKeys, injected, slaveQ, masterBuf, childVars,
                 returncode, relayVars, end_event, fdVars>>

\* input_string_interactive: delay_fn=read_char() has returned a str; it is
\* bound to delay_fn and input_string_generic starts with its own read_char().
InteractiveBind ==
  /\ pc = "l34"
  /\ delay_fn' = "str"
  /\ pc' = "rc_enter"
  /\ retpc' = "gen_for"
  /\ UNCHANGED <<inputVars, term, saved, ch, i, j, err, toggles, keyVars,
                 ptyVars, childVars, returncode, relayVars, end_event, fdVars>>

\* read_char, up to the blocking read: tcgetattr, then tty.setraw (which may
\* raise; the finally clause then restores attrs, unchanged so far).
ReadCharEnter ==
  /\ pc = "rc_enter"
  /\ saved' = term
  /\ \/ /\ term' = SetRaw(term)
        /\ pc' = "rc_read"
        /\ err' = err
     \/ /\ term' = FinallyRestore(term, term)
        /\ Raise("OSError")
  /\ UNCHANGED <<inputVars, retpc, ch, delay_fn, i, j, toggles, keyVars,
                 ptyVars, childVars, returncode, relayVars, end_event, fdVars>>

\* read_char, from the read on: sys.stdin.read(1) returns the character of the
\* next key press (or raises), the finally clause restores attrs.
ReadCharRead ==
  /\ pc = "rc_read"
  /\ term' = FinallyRestore(saved, term)
  /\ \/ /\ retpc = "interact_inject"
        /\ Len(handoffKeys) < MaxKeys
        /\ \E k \in Keystrokes :
             /\ ch' = Utf8Decode(k)
             /\ handoffKeys' = Append(handoffKeys, k)
        /\ pc' = retpc
        /\ UNCHANGED <<playKeys, cmdKeys, err>>
     \/ /\ retpc # "interact_inject"
        /\ \E k \in Keystrokes : Utf8Decode(k) \in Nat
        /\ playKeys' = playKeys + 1
        /\ cmdKeys' = cmdKeys + 1
        /\ pc' = retpc
        /\ UNCHANGED <<ch, handoffKeys, err>>
     \/ /\ Raise("OSError")
        /\ UNCHANGED <<ch, keyVars>>
  /\ UNCHANGED <<inputVars, retpc, saved, delay_fn, i, j, toggles, ptyVars,
                 childVars, returncode, relayVars, end_event, fdVars>>

\* input_string_generic's loop: for ch in b: delay_fn(); input_char(...)
GenFor ==
  /\ pc = "gen_for"
  /\ \/ /\ j < Len(cmd)
        /\ delay_fn = "sleep"
        /\ InputChar(ToBytes(cmd[j + 1]), "play")
        /\ j' = j + 1
        /\ cmdInj' = cmdInj + 1
        /\ UNCHANGED <<pc, i, err>>
     \/ /\ j < Len(cmd)
        /\ delay_fn = "str"
        /\ Raise("TypeError")
        /\ UNCHANGED <<i, j, ptyVars>>
     \/ /\ j = Len(cmd)
        /\ i' = i + 1
        /\ pc' = "for"
        /\ UNCHANGED <<j, err, ptyVars>>
  /\ UNCHANGED <<inputVars, term, retpc, saved, ch, delay_fn, toggles, keyVars,
                 childVars, returncode, relayVars, end_event, fdVars>>

\* interact's loop condition, is_alive(p): p.wait(0) reaps a dead child.
IsAlive ==
  /\ pc = "interact_alive"
  /\ \/ /\ childAlive
        /\ pc' = "rc_enter"
        /\ retpc' = "interact_inject"
        /\ returncode' = returncode
     \/ /\ ~childAlive
        /\ returncode' = "set"
        /\ pc' = "set_event"
        /\ retpc' = retpc
  /\ UNCHANGED <<inputVars, term, saved, ch, delay_fn, i, j, err, toggles,
                 keyVars, ptyVars, childVars, relayVars, end_event, fdVars>>

\* interact's loop body after the read: input_char(slave_fd, ch), ch a str
InteractInject ==
  /\ pc = "interact_inject"
  /\ InputChar(Utf8Encode(ch), "handoff")
  /\ pc' = "interact_alive"
  /\ UNCHANGED <<inputVars, term, orchLocals, err, toggles, keyVars, cmdInj,
                 childVars, returncode, relayVars, end_event, fdVars>>

\* end_event.set()
SetEvent ==
  /\ pc = "set_event"
  /\ end_event' = TRUE
  /\ pc' = "wait"
  /\ UNCHANGED <<inputVars, term, orchLocals, err, toggles, keyVars, ptyVars,
                 childVars, returncode, relayVars, fdVars>>

\* p.wait(): returns once the child has exited
Wait ==
  /\ pc = "wait"
  /\ ~childAlive
  /\ returncode' = "set"
  /\ pc' = "release"
  /\ UNCHANGED <<inputVars, term, orchLocals, err, toggles, keyVars, ptyVars,
                 childVars, relayVars, end_event, fdVars>>

\* input_char(slave_fd, b" ")  # release reading thread
Release ==
  /\ pc = "release"
  /\ InputChar(<<SPACE>>, "release")
  /\ pc' = "toggle_on"
  /\ UNCHANGED <<inputVars, term, orchLocals, err, toggles, keyVars, cmdInj,
                 childVars, returncode, relayVars, end_event, fdVars>>

\* Leaving the with block, normally or unwinding: master.close(). A
\* BufferedReader's close takes the lock a pending read holds, so it waits
\* for the relay's read to return.
CloseMaster ==
  /\ pc = "close"
  /\ rpc # "read"
  /\ masterOpen' = FALSE
  /\ pc' = IF err = "none" THEN "done" ELSE "raised"
  /\ UNCHANGED <<inputVars, term, orchLocals, err, toggles, keyVars, ptyVars,
                 childVars, returncode, relayVars, end_event, slaveOpen>>

\* ------------------------------------------------------------ relay thread
\* splice_master's loop test, and the call of master.read(1) (which raises
\* ValueError at once on a closed file).
RelayCheck ==
  /\ rpc = "loop"
  /\ \/ /\ end_event
        /\ rpc' = "done"
        /\ readFailed' = readFailed
     \/ /\ ~end_event
        /\ masterOpen
        /\ rpc' = "read"
        /\ readFailed' = readFailed
     \/ /\ ~end_event
        /\ ~masterOpen
        /\ rpc' = "failed"
        /\ readFailed' = TRUE
  /\ UNCHANGED <<inputVars, term, pc, orchLocals, err, toggles, keyVars,
                 ptyVars, childVars, returncode, stdout, end_event, fdVars>>

\* master.read(1) returns a byte, which is written to sys.stdout and flushed.
\* The orchestrator keeps slave_fd open, so the read never sees end-of-file.
RelayRead ==
  /\ rpc = "read"
  /\ masterBuf # <<>>
  /\ stdout' = Append(stdout, Head(masterBuf))
  /\ masterBuf' = Tail(masterBuf)
  /\ rpc' = "loop"
  /\ UNCHANGED <<inputVars, term, pc, orchLocals, err, toggles, keyVars,
                 injected, cmdInj, slaveQ, childVars, returncode, readFailed,
                 end_event, fdVars>>

\* ------------------------------------------------------------------- child
\* The interpreter reads one byte of its terminal input. With the slave's
\* ECHO flag off it echoes the byte itself. It exits on the line ExitLine.
ChildLine(st, b) ==
  IF b = ExitLine[2] THEN "empty"
  ELSE IF st = "empty" /\ b = ExitLine[1] THEN "exit"
  ELSE "other"

ChildRead ==
  /\ childAlive
  /\ slaveQ # <<>>
  /\ slaveQ' = Tail(slaveQ)
  /\ lineSt' = ChildLine(lineSt, Head(slaveQ))
  /\ childAlive' = ~(lineSt = "exit" /\ Head(slaveQ) = ExitLine[2])
  /\ masterBuf' = IF ptyEcho THEN masterBuf ELSE Append(masterBuf, Head(slaveQ))
  /\ UNCHANGED <<inputVars, term, pc, orchLocals, err, toggles, keyVars,
                 injected, cmdInj, returncode, relayVars, end_event, fdVars>>

Next ==
  \/ OpenPty
  \/ Popen
  \/ StartRelay
  \/ ToggleEchoCall
  \/ ForCommand
  \/ InteractiveBind
  \/ ReadCharEnter
  \/ ReadCharRead
  \/ GenFor
  \/ IsAlive
  \/ InteractInject
  \/ SetEvent
  \/ Wait
  \/ Release
  \/ CloseMaster
  \/ RelayCheck
  \/ RelayRead
  \/ ChildRead

Spec == Init /\ [][Next]_vars

\* The orchestrator's steps, for the fairness of its thread.
OrchNext ==
  \/ OpenPty
  \/ Popen
  \/ StartRelay
  \/ ToggleEchoCall
  \/ ForCommand
  \/ InteractiveBind
  \/ ReadCharEnter
  \/ ReadCharRead
  \/ GenFor
  \/ IsAlive
  \/ InteractInject
  \/ SetEvent
  \/ Wait
  \/ Release
  \/ CloseMaster

\* Every thread that can run does run, the child reads the input it is given,
\* and a pending keyboard read is served.
FairSpec ==
  /\ Spec
  /\ WF_vars(OrchNext)
  /\ WF_vars(RelayCheck \/ RelayRead)
  /\ WF_vars(ChildRead)

\* ------------------------------------------------------------------ claims
IsPlay(r) == r.ph = "play"
IsHandoff(r) == r.ph = "handoff"
IsSynthetic(r) == r.ph \notin {"play", "handoff"}
BytesOf(rs) == [k \in 1..Len(rs) |-> rs[k].b]
PlayBytes == BytesOf(SelectSeq(injected, IsPlay))
HandoffBytes == BytesOf(SelectSeq(injected, IsHandoff))
SyntheticBytes == BytesOf(SelectSeq(injected, IsSynthetic))

\* The for loop over the script has been left without an exception.
PlaybackDone ==
  \/ pc \in {"interact_alive", "interact_inject", "set_event", "wait",
             "release", "toggle_on", "done"}
  \/ pc \in {"rc_enter", "rc_read"} /\ retpc = "interact_inject"
  \/ pc = "close" /\ err = "none"

\* C1: when run_demo has carried the session through teardown and returned,
\* the operator terminal's attributes equal those it had when run_demo
\* started, whatever they were.
C1_AttrsRestoredAfterTeardown == pc = "done" => term = attrs0

C1_Witness ==
  /\ pc = "done"
  /\ attrs0 = [echo |-> TRUE, icanon |-> TRUE]
  /\ playKeys > 0
  /\ toggles = 2

\* C2: on every exit of run_demo after the echo was toggled off (return or
\* exception), the echo has been toggled back exactly once: two toggles in
\* all, and the echo bit as it was at the start.
C2_EchoToggledBackOnEveryExit ==
  (pc \in {"done", "raised"} /\ toggles > 0) =>
    (toggles = 2 /\ term.echo = attrs0.echo)

\* C3: with Interactive pacing, the injection of one command of length L
\* ends having consumed exactly L operator keys and injected all L bytes.
C3_InteractiveConsumesLKeys ==
  is_interactive =>
    /\ (pc = "for" /\ i > 0) =>
         (cmdKeys = Len(commands[i]) /\ cmdInj = Len(commands[i]))
    /\ (err = "TypeError") =>
         (cmdKeys = Len(cmd) /\ cmdInj = Len(cmd))

\* C4: with Timed pacing the bytes injected during playback are, at every
\* moment, the commands already played followed by the first bytes of the
\* command being played, and when playback is over they are the concatenation
\* of all the commands.
C4_TimedInjectsScriptInOrder ==
  ~is_interactive =>
    /\ IsPrefix(PlayBytes, Flatten(commands))
    /\ (pc = "for") => PlayBytes = Flatten(SubSeq(commands, 1, i))
    /\ (pc = "gen_for") =>
         PlayBytes = Flatten(SubSeq(commands, 1, i)) \o SubSeq(cmd, 1, j)
    /\ PlaybackDone => PlayBytes = Flatten(commands)

C4_Witness ==
  /\ ~is_interactive
  /\ pc = "set_event"
  /\ commands = <<<<120>>, ExitLine>>
  /\ PlayBytes = <<120, 120, 10>>

\* C5: with Timed pacing, script playback consumes no operator key.
C5_TimedConsumesNoKeys == ~is_interactive => playKeys = 0

\* C6: when keep is not set, nothing is injected into the pty slave once the
\* orchestrator has observed the child dead (its wait on the child returned).
C6_NoInjectionAfterObservedDeath ==
  [][(~keep /\ returncode = "set") => injected' = injected]_vars

\* C7: when the script is exhausted, the child is alive and keep is not set,
\* the orchestrator has injected a terminating command (the exit line) by the
\* time it blocks in the wait on the child.
C7_ExitInjectedBeforeWait ==
  (pc = "wait" /\ ~keep /\ childAlive) => SyntheticBytes = ExitLine

\* C8: every session that no failure of the environment aborts eventually
\* reaches Closed: run_demo returns after teardown.
C8_EventuallyClosed == <>(pc = "done" \/ err = "OSError")

\* C9: in the hand-off loop every keystroke read has been injected verbatim
\* (the same bytes, in order, once each) when the loop tests the child again,
\* and without keep no keystroke is read or injected in hand-off.
C9_HandoffInjectsVerbatim ==
  /\ (pc = "interact_alive") => HandoffBytes = Flatten(handoffKeys)
  /\ ~keep => (handoffKeys = <<>> /\ HandoffBytes = <<>>)

\* C10: the relay does not leave its loop before a read on the master failed.
C10_RelayStopsOnlyOnReadFailure ==
  (rpc \in {"done", "failed"}) => readFailed

\* C11: when pty.openpty or subprocess.Popen fails, run_demo is left with no
\* echo toggle made and no raw-mode read begun: the operator terminal has the
\* attributes it had when run_demo was called.
AllocationFailed == pc = "raised" /\ rpc = "unstarted"

C11_AllocationFailureLeavesTerminal ==
  AllocationFailed =>
    /\ toggles = 0
    /\ term = attrs0
    /\ saved = attrs0
    /\ playKeys = 0
    /\ handoffKeys = <<>>

C11_Witness ==
  /\ AllocationFailed
  /\ masterOpen
  /\ attrs0 = [echo |-> TRUE, icanon |-> TRUE]

\* C12: outside a read_char in progress the operator terminal has exactly the
\* attributes the echo toggles made so far give it: every read_char, whether
\* it returned or raised while switching to raw mode or while reading, has put
\* back the attributes it captured on entry, and raw mode never outlives it.
AttrsOutsideRead ==
  IF toggles = 1
  THEN [echo |-> ~attrs0.echo, icanon |-> attrs0.icanon]
  ELSE attrs0

C12_ReadCharRestoresAttrs ==
  /\ (pc # "rc_read") => term = AttrsOutsideRead
  /\ (pc = "rc_read") => saved = AttrsOutsideRead

C12_Witness ==
  /\ err = "OSError"
  /\ pc = "raised"
  /\ rpc # "unstarted"
  /\ playKeys = 1
  /\ attrs0 = [echo |-> FALSE, icanon |-> TRUE]
  /\ term = [echo |-> TRUE, icanon |-> TRUE]

\* C13: in the hand-off loop, once the child has exited the orchestrator is not
\* left waiting for an operator key, and no operator keystroke is injected
\* into the pty slave any more.
HandoffReadPending == pc = "rc_read" /\ retpc = "interact_inject"

C13_HandoffEndsWithChild ==
  /\ [](HandoffReadPending => childAlive)
  /\ [][~childAlive => HandoffBytes' = HandoffBytes]_vars

\* C14 as claimed: at every injection of the playback phase the relay has been
\* started and the operator terminal's echo is off.
PlayInjectionDue == pc = "gen_for" /\ j < Len(cmd) /\ delay_fn = "sleep"

C14_EchoOffAtEveryInjection ==
  PlayInjectionDue => (rpc # "unstarted" /\ ~term.echo)

\* C14 as amended: at every injection of the playback phase the relay has been
\* started and the echo bit has been toggled exactly once, so it is the
\* opposite of what it was when run_demo was called (off when it was on), the
\* keyboard reads made in between having left it so.
C14_EchoToggledAtEveryInjection ==
  PlayInjectionDue =>
    /\ rpc # "unstarted"
    /\ toggles = 1
    /\ term.echo = ~attrs0.echo
    /\ term.icanon = attrs0.icanon

C14_Witness ==
  /\ PlayInjectionDue
  /\ i = 1
  /\ j = 1
  /\ playKeys = 2
  /\ attrs0.echo
  /\ ~term.echo

\* C15: the injection of an empty command ends having injected nothing and
\* consumed no operator key, in both pacing modes.
C15_EmptyCommandConsumesNothing ==
  (pc = "for" /\ i > 0 /\ commands[i] = <<>>) => (cmdInj = 0 /\ cmdKeys = 0)

\* C16: once the child has exited, the relay thread eventually terminates
\* (it leaves its loop, or a read on the master fails).
ChildExited == rpc # "unstarted" /\ ~childAlive
RelayTerminated == rpc \in {"done", "failed"}

C16_RelayTerminatesAfterChildExit == ChildExited ~> RelayTerminated

\* C17: when run_demo has returned normally, the pty master and the pty slave
\* held by the orchestrator are closed and the child has been reaped.
C17_AllDescriptorsClosed ==
  (pc = "done") => (~masterOpen /\ ~slaveOpen /\ returncode = "set")

\* C18: at the step that closes the master, the relay thread has terminated.
C18_RelayTerminatedAtClose ==
  [][(masterOpen /\ ~masterOpen') => RelayTerminated]_vars

\* C19: every toggle_echo call flips the echo bit and leaves the other
\* attributes as they are, and toggling twice any attributes the terminal
\* takes gives them back.
C19_ToggleEchoFlipsOnlyEcho ==
  [][/\ (toggles' # toggles) =>
          (term'.echo = ~term.echo /\ term'.icanon = term.icanon)
     /\ ToggleEcho(ToggleEcho(term)) = term
     /\ ToggleEcho(term) # term]_vars

C19_Witness ==
  /\ toggles = 2
  /\ attrs0 = [echo |-> FALSE, icanon |-> TRUE]
  /\ term = attrs0

====
